---------------------------- MODULE Spec2Model ----------------------------
(***************************************************************************)
(* Event correlation of the BeFaaS plotting scripts                        *)
(* (scripts/plotting/data_extraction.py).                                  *)
(*                                                                         *)
(* A log batch is a finite sequence of entries.  Every analysis function   *)
(* walks the batch once, entry by entry, and keeps a table of unmatched    *)
(* markers:                                                                *)
(*   extract_detailed_request_data      requests      (per contextId)      *)
(*   analyze_response_times_from_pairs  pair_requests (per contextId)      *)
(*   analyze_response_times             start_marks   (contextId, mark id) *)
(*   analyze_function_auth_delays       auth_start_marks (contextId, target)*)
(* The model ingests the batch one entry at a time; one step runs the loop *)
(* body of every analysis on that entry.  The lists the functions return   *)
(* after their loop are operators over the tables, so that every reachable *)
(* state shows what the functions return for the batch `data` read so far. *)
(*                                                                         *)
(* Specifications:                                                         *)
(*   Spec          batches of complete request entries or performance marks*)
(*   KeySpec       batches that mix the keys of several spans and requests *)
(*   RawSpec       batches with malformed and foreign entries              *)
(*   ClassifySpec  endpoint, category and auth flag of one request url     *)
(*   CallsSpec     batches with concurrent calls to one target             *)
(*   ColdSpec      batches with cold-start entries                         *)
(*   WarmupSpec    the warm-up filters on a growing request list           *)
(*   LoadSpec      analyze_load_over_time, one window of its loop per step *)
(***************************************************************************)
EXTENDS Integers, Sequences, FiniteSets, TLC

VARIABLES
    batch,           \* what is analysed: a batch ("pairs", "marks", "keys",
                     \* "raw", "calls", "cold"), a url ("classify") or a request list
                     \* ("warmup", "load")
    data,            \* the entries read so far, in log order
    requests,        \* extract_detailed_request_data: requests = {}
    coldstart_contexts,  \* extract_detailed_request_data: coldstart_contexts
    pair_requests,   \* analyze_response_times_from_pairs: requests = {}
    start_marks,     \* analyze_response_times: start_marks = {}
    response_times,  \* analyze_response_times: response_times = []
    function_times,  \* analyze_response_times: function_times = defaultdict(list)
    auth_start_marks,    \* analyze_function_auth_delays: start_marks = {}
    auth_function_times, \* analyze_function_auth_delays: function_times
    raised,          \* the analyses whose run ended with an exception
    url,             \* the url of the request being classified
    classified,      \* what the classifying code derives from url
    detailed,        \* the request list handed to the warm-up filters and
                     \* to analyze_load_over_time
    warm,            \* what the warm-up filters return for detailed
    load             \* analyze_load_over_time: the locals of one call

vars == <<batch, data, requests, coldstart_contexts, pair_requests, start_marks, response_times,
          function_times, auth_start_marks, auth_function_times, raised,
          url, classified, detailed, warm, load>>

---------------------------------------------------------------------------
(* Bounds and input alphabets *)

MaxLen == 4

OutlierCeiling == 60000

Contexts == {"c1", "c2"}

MarkContexts == {"c1"}

\* Logical clock values of begin and of end markers: 60 - 10 is a valid
\* duration, 60010 - 10 is exactly the ceiling, 60010 - 60 lies just below
\* it, 10 - 10 is zero and 10 - 60 is negative.
BeginTimestamps == {10, 60}

EndTimestamps == {10, 60, 60010}

Timestamps(t) == IF t \in {"before", "start"} THEN BeginTimestamps ELSE EndTimestamps

MeasureDurations == {0, 25, 60000}

\* A string is the sequence of its pieces; ":" is a piece of its own, and two
\* adjacent pieces that are not ":" spell one word ("front","end" is frontend).
\* rpcOut:frontend:x, a call to the function frontend
FrontendCall == <<"rpcOut", ":", "front", "end", ":", "x">>

\* rpcOut:f, rpcOut:frontend:x and get:f
SpanNames == { <<"rpcOut", ":", "f">>, FrontendCall, <<"get", ":", "f">> }

\* clock values of the span markers of one name; the call to frontend is
\* logged once, started at 10 and ended at 60
SpanTimestamps(p, n) ==
    IF n = FrontendCall THEN (IF p = "start" THEN {10} ELSE {60})
    ELSE Timestamps(p)


\* event of a request log line: {contextId, type, xPair}
PairEntries ==
    UNION { { [event |-> [contextId |-> c, type |-> t, xPair |-> "x"],
               timestamp |-> ts] : c \in Contexts, ts \in Timestamps(t) } :
            t \in {"before", "after"} }

\* event of a performance mark: {contextId, perf: {mark[, duration]}}, data.now
SpanEntries ==
    UNION { { [event |-> [contextId |-> c, perf |-> [mark |-> <<pn[1], ":">> \o pn[2]]],
               now |-> ts] :
                 c \in MarkContexts, ts \in SpanTimestamps(pn[1], pn[2]) } :
            pn \in {"start", "end"} \X SpanNames }

MeasureEntries ==
    { [event |-> [contextId |-> c,
                  perf |-> [mark |-> <<"measure", ":", "f">>, duration |-> d]],
       now |-> 10] :
        c \in MarkContexts, d \in MeasureDurations }

MarkEntries == SpanEntries \cup MeasureEntries

---------------------------------------------------------------------------
(* Python dict: insertion-ordered sequence of [key, val] items *)

EmptyDict == << >>

Has(d, k) == \E i \in DOMAIN d : d[i].key = k

IndexOf(d, k) == CHOOSE i \in DOMAIN d : d[i].key = k

Get(d, k) == d[IndexOf(d, k)].val

\* d[k] = v
Set(d, k, v) ==
    IF Has(d, k)
    THEN [d EXCEPT ![IndexOf(d, k)].val = v]
    ELSE Append(d, [key |-> k, val |-> v])

\* del d[k]
Del(d, k) == SelectSeq(d, LAMBDA it : it.key # k)

\* rec[k] = v on a dict with string keys, modelled as a record
Put(rec, k, v) == (k :> v) @@ rec

\* rec.get(k, default)
GetOr(rec, k, default) == IF k \in DOMAIN rec THEN rec[k] ELSE default

---------------------------------------------------------------------------
(* Python string operations on sequences of pieces *)

\* s.startswith(p)
StartsWith(s, p) == Len(s) >= Len(p) /\ SubSeq(s, 1, Len(p)) = p

\* s.replace(p, ''): the occurrences of p, found from the left, are removed
RECURSIVE Replace(_, _)
Replace(s, p) ==
    IF Len(s) < Len(p) THEN s
    ELSE IF StartsWith(s, p) THEN Replace(SubSeq(s, Len(p) + 1, Len(s)), p)
    ELSE <<Head(s)>> \o Replace(Tail(s), p)

\* s.split(':')
RECURSIVE Split(_)
Split(s) ==
    IF s = << >> THEN << << >> >>
    ELSE IF Head(s) = ":" THEN << << >> >> \o Split(Tail(s))
    ELSE LET rest == Split(Tail(s))
         IN  << <<Head(s)>> \o Head(rest) >> \o Tail(rest)

\* ':'.join(parts)
RECURSIVE Join(_)
Join(parts) ==
    IF parts = << >> THEN << >>
    ELSE IF Len(parts) = 1 THEN parts[1]
    ELSE parts[1] \o <<":">> \o Join(Tail(parts))

---------------------------------------------------------------------------
(* Duration of a pair and the validity check *)

\* duration = req['after'] - req['before']
Duration(req) == req.after - req.before

\* if duration > 0 and duration < 60000
DurationOk(d) == d > 0 /\ d < OutlierCeiling

\* if 'before' in req and 'after' in req
HasPair(req) == "before" \in DOMAIN req /\ "after" \in DOMAIN req

---------------------------------------------------------------------------
(* extract_detailed_request_data *)

\* if ctx_id not in requests: requests[ctx_id] = {'xpair': xpair}
ExtractEnsure(reqs, ctx_id, xpair) ==
    IF Has(reqs, ctx_id) THEN reqs ELSE Set(reqs, ctx_id, [xpair |-> xpair])

\* requests[ctx_id]['before'] = ts
ExtractBefore(reqs, ctx_id, ts) ==
    Set(reqs, ctx_id, Put(Get(reqs, ctx_id), "before", ts))

\* requests[ctx_id]['after'] = ts
ExtractAfter(reqs, ctx_id, ts) ==
    Set(reqs, ctx_id, Put(Get(reqs, ctx_id), "after", ts))

\* one iteration of the loop over data
ExtractStep(reqs, entry) ==
    LET event == entry.event IN
    IF "contextId" \notin DOMAIN event THEN reqs
    ELSE LET ctx_id   == event.contextId
             ts       == GetOr(entry, "timestamp", 0)
             req_type == GetOr(event, "type", "")
             xpair    == GetOr(event, "xPair", "")
             ensured  == ExtractEnsure(reqs, ctx_id, xpair)
         IN  IF req_type = "before" THEN ExtractBefore(ensured, ctx_id, ts)
             ELSE IF req_type = "after" THEN ExtractAfter(ensured, ctx_id, ts)
             ELSE ensured

\* the record appended to processed (its fields derived from the url, the
\* log time and the cold-start set are left out here)
ProcessedRecord(ctx_id, req) ==
    [context_id |-> ctx_id, duration |-> Duration(req),
     xpair |-> GetOr(req, "xpair", "")]

\* the second loop: processed, in the order of requests.items()
Processed(reqs) ==
    LET kept == SelectSeq(reqs, LAMBDA it :
                    HasPair(it.val) /\ DurationOk(Duration(it.val)))
    IN  [i \in 1..Len(kept) |-> ProcessedRecord(kept[i].key, kept[i].val)]

\* Variant of ColdstartStep: a context is entered for every entry that
\* carries the coldstart key, whatever its value.
ColdstartStepOnKey(contexts, entry) ==
    IF "coldstart" \in DOMAIN entry.event /\ GetOr(entry.event, "contextId", "") # ""
    THEN contexts \cup {entry.event.contextId}
    ELSE contexts

\* the cold-start part of one iteration of the loop over data:
\* if event.get('coldstart'): ctx = event.get('contextId', ''); if ctx: add
ColdstartStep(contexts, entry) ==
    IF GetOr(entry.event, "coldstart", FALSE) /\ GetOr(entry.event, "contextId", "") # ""
    THEN contexts \cup {entry.event.contextId}
    ELSE contexts

\* context_id and is_coldstart of the records of processed
ColdstartFlags(reqs, contexts) ==
    [i \in DOMAIN Processed(reqs) |->
        [context_id |-> Processed(reqs)[i].context_id,
         is_coldstart |-> Processed(reqs)[i].context_id \in contexts]]

---------------------------------------------------------------------------
(* analyze_response_times_from_pairs *)

PairsStep(reqs, entry) ==
    LET event == entry.event IN
    IF "contextId" \notin DOMAIN event THEN reqs
    ELSE LET ctx_id   == event.contextId
             ts       == GetOr(entry, "timestamp", 0)
             req_type == GetOr(event, "type", "")
             ensured  == IF Has(reqs, ctx_id) THEN reqs
                         ELSE Set(reqs, ctx_id, << >>)
         IN  IF req_type = "before"
             THEN Set(ensured, ctx_id, Put(Get(ensured, ctx_id), "before", ts))
             ELSE IF req_type = "after"
             THEN Set(ensured, ctx_id, Put(Get(ensured, ctx_id), "after", ts))
             ELSE ensured

\* response_times of analyze_response_times_from_pairs
PairResponseTimes(reqs) ==
    LET kept == SelectSeq(reqs, LAMBDA it :
                    HasPair(it.val) /\ DurationOk(Duration(it.val)))
    IN  [i \in 1..Len(kept) |-> Duration(kept[i].val)]

---------------------------------------------------------------------------
(* analyze_response_times *)

\* function_times[name].append(d)
AppendTo(ft, name, d) ==
    Set(ft, name, Append(IF Has(ft, name) THEN Get(ft, name) ELSE << >>, d))

\* perf.get('duration', 0)
PerfDuration(perf) == GetOr(perf, "duration", 0)

\* mark.startswith('measure:') and perf.get('duration', 0) > 0
IsMeasure(perf) ==
    StartsWith(perf.mark, <<"measure", ":">>) /\ PerfDuration(perf) > 0

IsRpcStart(mark) ==
    \/ StartsWith(mark, <<"start", ":", "rpcOut", ":">>)
    \/ StartsWith(mark, <<"start", ":", "rpcIn", ":">>)

IsRpcEnd(mark) ==
    \/ StartsWith(mark, <<"end", ":", "rpcOut", ":">>)
    \/ StartsWith(mark, <<"end", ":", "rpcIn", ":">>)

IsEndpointStart(mark) ==
    \/ StartsWith(mark, <<"start", ":", "get", ":">>)
    \/ StartsWith(mark, <<"start", ":", "post", ":">>)

IsEndpointEnd(mark) ==
    \/ StartsWith(mark, <<"end", ":", "get", ":">>)
    \/ StartsWith(mark, <<"end", ":", "post", ":">>)

\* mark_id = mark.replace('start:', '') / mark.replace('end:', '')
StartMarkId(mark) == Replace(mark, <<"start", ":">>)

EndMarkId(mark) == Replace(mark, <<"end", ":">>)

\* if duration_ms > 0
SpanDurationOk(d) == d > 0

\* Variant of MeasureBranch: the measurement also ends the spans of the
\* measured function that are still open.
MeasureBranchClosingSpans(st, perf) ==
    LET d == perf.duration
        parts == Split(perf.mark)
        name == Join(Tail(parts))
        open == SelectSeq(st.start_marks,
                          LAMBDA it : LET id == Split(it.key[2])
                                      IN  ~(Len(id) >= 2 /\ id[Len(id)] = name))
    IN  [start_marks |-> open,
         response_times |-> Append(st.response_times, d),
         function_times |-> AppendTo(st.function_times, name, d)]

\* measure branch
MeasureBranch(st, perf) ==
    LET d == perf.duration
        parts == Split(perf.mark)
    IN  [st EXCEPT !.response_times = Append(@, d),
                   !.function_times =
                       IF Len(parts) >= 2 THEN AppendTo(@, Join(Tail(parts)), d)
                       ELSE @]

\* Variant of StartBranch: a start for a key that is still open closes the
\* earlier span at the new start instead of overwriting it.
StartBranchClosingPrevious(st, context_id, mark, now) ==
    LET key == <<context_id, Replace(mark, <<"start", ":">>)>>
    IN  [st EXCEPT !.start_marks = Set(@, key, now),
                   !.response_times =
                       IF Has(st.start_marks, key) /\ now - Get(st.start_marks, key) > 0
                       THEN Append(@, now - Get(st.start_marks, key)) ELSE @]

\* start branches: start_marks[(context_id, mark_id)] = timestamp_data
StartBranch(st, context_id, mark, now) ==
    [st EXCEPT !.start_marks = Set(@, <<context_id, StartMarkId(mark)>>, now)]

\* end:rpcOut / end:rpcIn branch
RpcEndBranch(st, context_id, mark, now) ==
    LET mark_id == EndMarkId(mark)
        key == <<context_id, mark_id>>
        parts == Split(mark_id)
    IN  IF ~Has(st.start_marks, key) THEN st
        ELSE LET d == now - Get(st.start_marks, key) IN
             [start_marks |-> Del(st.start_marks, key),
              response_times |->
                  IF SpanDurationOk(d) THEN Append(st.response_times, d)
                  ELSE st.response_times,
              function_times |->
                  IF SpanDurationOk(d) /\ Len(parts) >= 2
                  THEN AppendTo(st.function_times, parts[2], d)
                  ELSE st.function_times]

\* end:get / end:post branch
EndpointEndBranch(st, context_id, mark, now) ==
    LET mark_id == EndMarkId(mark)
        key == <<context_id, mark_id>>
    IN  IF ~Has(st.start_marks, key) THEN st
        ELSE LET d == now - Get(st.start_marks, key) IN
             [start_marks |-> Del(st.start_marks, key),
              response_times |->
                  IF SpanDurationOk(d) THEN Append(st.response_times, d)
                  ELSE st.response_times,
              function_times |->
                  IF SpanDurationOk(d) THEN AppendTo(st.function_times, mark_id, d)
                  ELSE st.function_times]

\* one iteration of the loop over data
MarksStep(st, entry) ==
    LET event_data == entry.event
        timestamp_data == GetOr(entry, "now", 0)
    IN  IF "perf" \notin DOMAIN event_data THEN st
        ELSE LET perf == event_data.perf
                 mark == GetOr(perf, "mark", << >>)
                 context_id == GetOr(event_data, "contextId", "")
             IN  IF IsMeasure(perf) THEN MeasureBranch(st, perf)
                 ELSE IF IsRpcStart(mark)
                      THEN StartBranch(st, context_id, mark, timestamp_data)
                 ELSE IF IsRpcEnd(mark)
                      THEN RpcEndBranch(st, context_id, mark, timestamp_data)
                 ELSE IF IsEndpointStart(mark)
                      THEN StartBranch(st, context_id, mark, timestamp_data)
                 ELSE IF IsEndpointEnd(mark)
                      THEN EndpointEndBranch(st, context_id, mark, timestamp_data)
                 ELSE st

---------------------------------------------------------------------------
(* analyze_function_auth_delays *)

\* s.split('/')[-1]
RECURSIVE LastSegment(_)
LastSegment(s) ==
    IF \A i \in DOMAIN s : s[i] # "/" THEN s ELSE LastSegment(Tail(s))

\* start:rpcOut: branch
AuthStartBranch(st, context_id, mark, timestamp) ==
    LET parts == Split(mark)
    IN  IF Len(parts) >= 3
        THEN [st EXCEPT !.start_marks = Set(@, <<context_id, parts[3]>>, timestamp)]
        ELSE st

\* end:rpcOut: branch
AuthEndBranch(st, context_id, mark, timestamp) ==
    LET parts == Split(mark)
    IN  IF Len(parts) < 3 THEN st
        ELSE LET call_target == parts[3]
                 key == <<context_id, call_target>>
             IN  IF ~Has(st.start_marks, key) THEN st
                 ELSE LET duration == timestamp - Get(st.start_marks, key) IN
                      [start_marks |-> Del(st.start_marks, key),
                       function_times |->
                           IF duration > 0
                           THEN AppendTo(st.function_times, call_target, duration)
                           ELSE st.function_times]

\* measure: branch
AuthMeasureBranch(st, perf) ==
    LET duration == perf.duration
        parts == Split(perf.mark)
    IN  IF Len(parts) < 2 THEN st
        ELSE LET func_part == parts[2]
                 func_name == IF \E i \in DOMAIN func_part : func_part[i] = "/"
                              THEN LastSegment(func_part) ELSE func_part
             IN  [st EXCEPT !.function_times = AppendTo(@, func_name, duration)]

\* one iteration of the loop over data
AuthDelaysStep(st, entry) ==
    LET event_data == entry.event
        timestamp == GetOr(entry, "now", 0)
    IN  IF "perf" \notin DOMAIN event_data THEN st
        ELSE LET perf == event_data.perf
                 mark == GetOr(perf, "mark", << >>)
                 context_id == GetOr(event_data, "contextId", "")
             IN  IF StartsWith(mark, <<"start", ":", "rpcOut", ":">>)
                 THEN AuthStartBranch(st, context_id, mark, timestamp)
                 ELSE IF StartsWith(mark, <<"end", ":", "rpcOut", ":">>)
                 THEN AuthEndBranch(st, context_id, mark, timestamp)
                 ELSE IF IsMeasure(perf) THEN AuthMeasureBranch(st, perf)
                 ELSE st

---------------------------------------------------------------------------
(* The state machine *)

\* no request is being classified
Unclassified == url = << >> /\ classified = << >>

\* no request list is being filtered
Unfiltered == detailed = << >> /\ warm = << >> /\ load = << >>

Init ==
    /\ batch \in {"pairs", "marks"}
    /\ data = << >>
    /\ requests = EmptyDict
    /\ coldstart_contexts = {}
    /\ pair_requests = EmptyDict
    /\ start_marks = EmptyDict
    /\ response_times = << >>
    /\ function_times = EmptyDict
    /\ auth_start_marks = EmptyDict
    /\ auth_function_times = EmptyDict
    /\ raised = {}
    /\ Unclassified
    /\ Unfiltered

\* every analysis reads the next entry of the batch
Ingest(entry) ==
    /\ Len(data) < MaxLen
    /\ data' = Append(data, entry)
    /\ requests' = ExtractStep(requests, entry)
    /\ coldstart_contexts' = ColdstartStep(coldstart_contexts, entry)
    /\ pair_requests' = PairsStep(pair_requests, entry)
    /\ LET st == MarksStep([start_marks |-> start_marks,
                            response_times |-> response_times,
                            function_times |-> function_times], entry)
       IN  /\ start_marks' = st.start_marks
           /\ response_times' = st.response_times
           /\ function_times' = st.function_times
    /\ LET st == AuthDelaysStep([start_marks |-> auth_start_marks,
                                function_times |-> auth_function_times], entry)
       IN  /\ auth_start_marks' = st.start_marks
           /\ auth_function_times' = st.function_times
    /\ UNCHANGED <<batch, raised, url, classified, detailed, warm, load>>

IngestPair == batch = "pairs" /\ \E entry \in PairEntries : Ingest(entry)

IngestMark == batch = "marks" /\ \E entry \in MarkEntries : Ingest(entry)

Next == IngestPair \/ IngestMark

Spec == Init /\ [][Next]_vars

---------------------------------------------------------------------------
(* Batches that mix the keys of several spans and requests *)

\* rpcOut:frontx, the text that replace('end:', '') leaves of
\* rpcOut:frontend:x
FrontxCall == <<"rpcOut", ":", "front", "x">>

\* rpcOut:f, rpcOut:frontend:x, rpcOut:frontx and put:f
KeyNames == { <<"rpcOut", ":", "f">>, FrontendCall, FrontxCall, <<"put", ":", "f">> }

\* the contextIds that log a span name
KeyContexts(n) == IF n = <<"rpcOut", ":", "f">> THEN Contexts ELSE MarkContexts

\* a request starts at 10 and ends at 60, and so does a span
KeyStamp(p) == IF p \in {"before", "start"} THEN 10 ELSE 60

KeyEntries ==
    { [event |-> [contextId |-> c, type |-> t, xPair |-> "x"],
       timestamp |-> KeyStamp(t)] : c \in Contexts, t \in {"before", "after"} }
    \cup
    UNION { { [event |-> [contextId |-> c, perf |-> [mark |-> <<pn[1], ":">> \o pn[2]]],
               now |-> KeyStamp(pn[1])] : c \in KeyContexts(pn[2]) } :
            pn \in {"start", "end"} \X KeyNames }

KeyInit ==
    /\ batch = "keys"
    /\ data = << >>
    /\ requests = EmptyDict
    /\ coldstart_contexts = {}
    /\ pair_requests = EmptyDict
    /\ start_marks = EmptyDict
    /\ response_times = << >>
    /\ function_times = EmptyDict
    /\ auth_start_marks = EmptyDict
    /\ auth_function_times = EmptyDict
    /\ raised = {}
    /\ Unclassified
    /\ Unfiltered

IngestKeyed == batch = "keys" /\ \E entry \in KeyEntries : Ingest(entry)

KeyNext == IngestKeyed

KeySpec == KeyInit /\ [][KeyNext]_vars

---------------------------------------------------------------------------
(* Batches with several calls to one target open at the same time *)

\* rpcOut:f:a and rpcOut:f:b, two calls of c1 to the function f
CallNames == { <<"rpcOut", ":", "f", ":", "a">>, <<"rpcOut", ":", "f", ":", "b">> }

\* clock values: calls start at 10 or 20 and end at 30 or 60
CallStamps(p) == IF p = "start" THEN {10, 20} ELSE {30, 60}

CallEntries ==
    UNION { { [event |-> [contextId |-> "c1", perf |-> [mark |-> <<pn[1], ":">> \o pn[2]]],
               now |-> ts] : ts \in CallStamps(pn[1]) } :
            pn \in {"start", "end"} \X CallNames }

CallsInit ==
    /\ batch = "calls"
    /\ data = << >>
    /\ requests = EmptyDict
    /\ coldstart_contexts = {}
    /\ pair_requests = EmptyDict
    /\ start_marks = EmptyDict
    /\ response_times = << >>
    /\ function_times = EmptyDict
    /\ auth_start_marks = EmptyDict
    /\ auth_function_times = EmptyDict
    /\ raised = {}
    /\ Unclassified
    /\ Unfiltered

IngestCall == batch = "calls" /\ \E entry \in CallEntries : Ingest(entry)

CallsNext == IngestCall

CallsSpec == CallsInit /\ [][CallsNext]_vars

---------------------------------------------------------------------------
(* Batches with cold-start entries *)

\* request lines of c1 and c2; the before line of c1 may carry the flag
ColdRequestEntries ==
    { [event |-> [contextId |-> c, type |-> "before", xPair |-> "x"], timestamp |-> 10] :
        c \in Contexts }
    \cup { [event |-> [contextId |-> c, type |-> "after", xPair |-> "x"], timestamp |-> 60] :
        c \in Contexts }
    \cup { [event |-> [contextId |-> "c1", type |-> "before", xPair |-> "x",
                       coldstart |-> TRUE], timestamp |-> 10] }

\* lines of a function start: the flag set for c1, for an empty contextId
\* and without contextId, and the flag cleared for c1
ColdstartEntries ==
    { [event |-> [contextId |-> c, coldstart |-> TRUE]] : c \in {"c1", ""} }
    \cup { [event |-> [coldstart |-> TRUE]],
           [event |-> [contextId |-> "c1", coldstart |-> FALSE]] }

ColdInit ==
    /\ batch = "cold"
    /\ data = << >>
    /\ requests = EmptyDict
    /\ coldstart_contexts = {}
    /\ pair_requests = EmptyDict
    /\ start_marks = EmptyDict
    /\ response_times = << >>
    /\ function_times = EmptyDict
    /\ auth_start_marks = EmptyDict
    /\ auth_function_times = EmptyDict
    /\ raised = {}
    /\ Unclassified
    /\ Unfiltered

IngestColdRequest == batch = "cold" /\ \E entry \in ColdRequestEntries : Ingest(entry)

IngestColdstart == batch = "cold" /\ \E entry \in ColdstartEntries : Ingest(entry)

ColdNext == IngestColdRequest \/ IngestColdstart

ColdSpec == ColdInit /\ [][ColdNext]_vars

---------------------------------------------------------------------------
(* Raw log entries: the prologue of every loop over data *)

\* Python values that are no mapping: None and a str
None == [py |-> "None"]

Text == [py |-> "str"]

\* v is a dict (v.get exists, 'k' in v is a key test)
IsMapping(v) == "py" \notin DOMAIN v

\* {}
EmptyMapping == [k \in {} |-> k]

\* {'__logentry__': {'data': d}}
Wrap(d) == [logentry |-> [data |-> d]]

\* entries that are no telemetry of this program, or only part of one
MalformedEntries ==
    { [message |-> "x"],                      \* no log wrapper
      [logentry |-> EmptyMapping],            \* wrapper without a data payload
      Wrap(None),                             \* data payload is null
      Wrap(Text),                             \* data payload is a str
      Wrap([event |-> None]),                 \* event is null
      Wrap([event |-> [contextId |-> "c1", perf |-> Text], now |-> 10]),
      Wrap([event |-> [contextId |-> "c1", type |-> "before", xPair |-> "x"]]),
      Wrap([event |-> [contextId |-> "c1", type |-> "after", xPair |-> "x"]]) }

\* complete request and mark entries, in their wrapper
WellFormedEntries ==
    { Wrap(e) : e \in
        { [event |-> [contextId |-> "c1", type |-> "before", xPair |-> "x"],
           timestamp |-> 10],
          [event |-> [contextId |-> "c1", type |-> "after", xPair |-> "x"],
           timestamp |-> 60],
          [event |-> [contextId |-> "c1",
                      perf |-> [mark |-> <<"start", ":", "rpcOut", ":", "f">>]],
           now |-> 10],
          [event |-> [contextId |-> "c1",
                      perf |-> [mark |-> <<"end", ":", "rpcOut", ":", "f">>]],
           now |-> 60] } }

RawEntries == MalformedEntries \cup WellFormedEntries

Analyses == {"extract_detailed_request_data", "analyze_response_times_from_pairs",
             "analyze_response_times", "analyze_function_auth_delays"}

\* if '__logentry__' not in entry: continue
HasLog(entry) == "logentry" \in DOMAIN entry

\* log.get('data', {})
LogData(entry) == GetOr(entry.logentry, "data", EmptyMapping)

\* log.get('data', {}).get('event', {})
LogEvent(entry) == GetOr(LogData(entry), "event", EmptyMapping)

\* the entry as the loop body reads it: data with its event
Unwrapped(entry) == Put(LogData(entry), "event", LogEvent(entry))

\* .get on a value that is no dict raises AttributeError, and so does
\* 'k' in None (TypeError)
DataRaises(entry) == ~IsMapping(LogData(entry))

EventRaises(entry) == ~IsMapping(LogEvent(entry))

\* perf = event_data['perf']; mark = perf.get('mark', '')
PerfRaises(entry) ==
    "perf" \in DOMAIN LogEvent(entry) /\ ~IsMapping(LogEvent(entry).perf)

\* the loop body of analysis f raises on this entry
Raises(f, entry) ==
    /\ HasLog(entry)
    /\ \/ DataRaises(entry)
       \/ EventRaises(entry)
       \/ /\ f \in {"analyze_response_times", "analyze_function_auth_delays"}
          /\ PerfRaises(entry)

\* analysis f is still running and its loop body handles this entry
Handles(f, entry) == f \notin raised /\ HasLog(entry) /\ ~Raises(f, entry)

RawInit ==
    /\ batch = "raw"
    /\ data = << >>
    /\ requests = EmptyDict
    /\ coldstart_contexts = {}
    /\ pair_requests = EmptyDict
    /\ start_marks = EmptyDict
    /\ response_times = << >>
    /\ function_times = EmptyDict
    /\ auth_start_marks = EmptyDict
    /\ auth_function_times = EmptyDict
    /\ raised = {}
    /\ Unclassified
    /\ Unfiltered

\* every analysis that has not raised reads the next raw entry
RawIngest(entry) ==
    /\ Len(data) < MaxLen
    /\ data' = Append(data, entry)
    /\ raised' = raised \cup { f \in Analyses : Raises(f, entry) }
    /\ requests' =
           IF Handles("extract_detailed_request_data", entry)
           THEN ExtractStep(requests, Unwrapped(entry)) ELSE requests
    /\ coldstart_contexts' =
           IF Handles("extract_detailed_request_data", entry)
           THEN ColdstartStep(coldstart_contexts, Unwrapped(entry))
           ELSE coldstart_contexts
    /\ pair_requests' =
           IF Handles("analyze_response_times_from_pairs", entry)
           THEN PairsStep(pair_requests, Unwrapped(entry)) ELSE pair_requests
    /\ LET now == [start_marks |-> start_marks,
                   response_times |-> response_times,
                   function_times |-> function_times]
           st == IF Handles("analyze_response_times", entry)
                 THEN MarksStep(now, Unwrapped(entry)) ELSE now
       IN  /\ start_marks' = st.start_marks
           /\ response_times' = st.response_times
           /\ function_times' = st.function_times
    /\ LET now == [start_marks |-> auth_start_marks,
                   function_times |-> auth_function_times]
           st == IF Handles("analyze_function_auth_delays", entry)
                 THEN AuthDelaysStep(now, Unwrapped(entry)) ELSE now
       IN  /\ auth_start_marks' = st.start_marks
           /\ auth_function_times' = st.function_times
    /\ UNCHANGED <<batch, url, classified, detailed, warm, load>>

IngestRaw == batch = "raw" /\ \E entry \in RawEntries : RawIngest(entry)

RawNext == IngestRaw

RawSpec == RawInit /\ [][RawNext]_vars

---------------------------------------------------------------------------
(* Classification: endpoint, category and auth flag of a request url *)

\* Here a str is the sequence of its characters.
UpperCase ==
    <<"A", "B", "C", "D", "E", "F", "G", "H", "I", "J", "K", "L", "M",
      "N", "O", "P", "Q", "R", "S", "T", "U", "V", "W", "X", "Y", "Z">>

LowerCase ==
    <<"a", "b", "c", "d", "e", "f", "g", "h", "i", "j", "k", "l", "m",
      "n", "o", "p", "q", "r", "s", "t", "u", "v", "w", "x", "y", "z">>

LowerChar(c) ==
    IF \E i \in DOMAIN UpperCase : UpperCase[i] = c
    THEN LowerCase[CHOOSE i \in DOMAIN UpperCase : UpperCase[i] = c]
    ELSE c

\* s.lower()
Lower(s) == [i \in DOMAIN s |-> LowerChar(s[i])]

\* sub in s
Contains(s, sub) ==
    \E i \in 0..(Len(s) - Len(sub)) : SubSeq(s, i + 1, i + Len(sub)) = sub

\* s.rstrip('/')
RECURSIVE RStrip(_)
RStrip(s) ==
    IF s # << >> /\ s[Len(s)] = "/" THEN RStrip(SubSeq(s, 1, Len(s) - 1)) ELSE s

\* s.split('/')
RECURSIVE SplitPath(_)
SplitPath(s) ==
    IF s = << >> THEN << << >> >>
    ELSE IF Head(s) = "/" THEN << << >> >> \o SplitPath(Tail(s))
    ELSE LET rest == SplitPath(Tail(s))
         IN  << <<Head(s)>> \o Head(rest) >> \o Tail(rest)

\* the keywords of ENDPOINT_CATEGORIES
register == <<"r", "e", "g", "i", "s", "t", "e", "r">>

setUser == <<"s", "e", "t", "U", "s", "e", "r">>

login == <<"l", "o", "g", "i", "n">>

logout == <<"l", "o", "g", "o", "u", "t">>

frontend == <<"f", "r", "o", "n", "t", "e", "n", "d">>

EASYSTOOL == <<"E", "A", "S", "Y", "S", "T", "O", "O", "L">>

QWERTY == <<"Q", "W", "E", "R", "T", "Y">>

REFLECTXXX == <<"R", "E", "F", "L", "E", "C", "T", "X", "X", "X">>

product == <<"p", "r", "o", "d", "u", "c", "t">>

addCartItem == <<"a", "d", "d", "C", "a", "r", "t", "I", "t", "e", "m">>

cart == <<"c", "a", "r", "t">>

removeCartItem == <<"r", "e", "m", "o", "v", "e", "C", "a", "r", "t", "I", "t", "e", "m">>

updateCart == <<"u", "p", "d", "a", "t", "e", "C", "a", "r", "t">>

checkout == <<"c", "h", "e", "c", "k", "o", "u", "t">>

payment == <<"p", "a", "y", "m", "e", "n", "t">>

order == <<"o", "r", "d", "e", "r">>

\* ENDPOINT_CATEGORIES.items(), in the order of the dict
ENDPOINT_CATEGORIES ==
    << [category |-> "User Management",
        endpoints |-> <<register, setUser, login, logout>>],
       [category |-> "Product Browsing",
        endpoints |-> <<frontend, EASYSTOOL, QWERTY, REFLECTXXX, product>>],
       [category |-> "Shopping Cart",
        endpoints |-> <<addCartItem, cart, removeCartItem, updateCart>>],
       [category |-> "Checkout",
        endpoints |-> <<checkout, payment, order>>] >>

\* the loop of categorize_endpoint from the i-th category on
RECURSIVE CategorizeFrom(_, _)
CategorizeFrom(endpoint_lower, i) ==
    IF i > Len(ENDPOINT_CATEGORIES) THEN "Other"
    ELSE LET endpoints == ENDPOINT_CATEGORIES[i].endpoints
         IN  IF \E j \in DOMAIN endpoints :
                    Contains(endpoint_lower, Lower(endpoints[j]))
             THEN ENDPOINT_CATEGORIES[i].category
             ELSE CategorizeFrom(endpoint_lower, i + 1)

\* Variant of categorize_endpoint: the endpoint is compared as it is
\* written, without endpoint.lower().
categorize_endpoint_as_written(endpoint) == CategorizeFrom(endpoint, 1)

categorize_endpoint(endpoint) == CategorizeFrom(Lower(endpoint), 1)

\* further keywords of the auth_endpoints lists
setuser == <<"s", "e", "t", "u", "s", "e", "r">>

auth == <<"a", "u", "t", "h">>

token == <<"t", "o", "k", "e", "n">>

verify == <<"v", "e", "r", "i", "f", "y">>

unknown == <<"u", "n", "k", "n", "o", "w", "n">>

\* auth_endpoints of is_auth_endpoint
auth_endpoints == <<register, setuser, login, logout, auth, token, verify>>

\* Variant of is_auth_endpoint: the endpoint is compared as it is written.
is_auth_endpoint_as_written(endpoint) ==
    \E i \in DOMAIN auth_endpoints : Contains(endpoint, auth_endpoints[i])

is_auth_endpoint(endpoint) ==
    \E i \in DOMAIN auth_endpoints : Contains(Lower(endpoint), auth_endpoints[i])

\* parts = url.rstrip('/').split('/')
UrlParts(u) == SplitPath(RStrip(u))

\* parts[-1] if parts else 'unknown'
LastPart(parts) == IF parts # << >> THEN parts[Len(parts)] ELSE unknown

\* endpoint of extract_detailed_request_data
ExtractEndpoint(u) == LastPart(UrlParts(u))

\* endpoint of analyze_response_times_from_pairs
PairsEndpoint(u) ==
    LET parts == UrlParts(u)
        endpoint == LastPart(parts)
    IN  IF Len(parts) >= 2 /\ parts[Len(parts) - 1] = product
        THEN parts[Len(parts)]
        ELSE endpoint

\* auth_endpoints of analyze_auth_requests
AuthRequestsEndpoints == <<register, setUser, login, logout, auth, token, verify>>

\* endpoint = url.rstrip('/').split('/')[-1].lower()
AuthRequestsEndpoint(u) == Lower(UrlParts(u)[Len(UrlParts(u))])

\* is_auth of analyze_auth_requests: the key of auth_times the duration
\* is appended to
AuthRequestsKey(u) ==
    IF \E i \in DOMAIN AuthRequestsEndpoints :
           Contains(AuthRequestsEndpoint(u), AuthRequestsEndpoints[i])
    THEN "auth" ELSE "non-auth"

\* the last segments of request urls: product, an id, cart, setUser in three
\* spellings, login, authorize, cartcheckout and home
PathSegments ==
    { product, <<"7">>, cart, setUser, setuser, <<"S", "E", "T", "U", "S", "E", "R">>,
      login, <<"a", "u", "t", "h", "o", "r", "i", "z", "e">>, <<"c", "a", "r", "t", "c", "h", "e", "c", "k", "o", "u", "t">>, <<"h", "o", "m", "e">> }

\* /a, /a/, /a/b and /a/b/ for segments a and b, and the empty url
Urls ==
    { << >> }
    \cup { <<"/">> \o a \o t : a \in PathSegments, t \in { << >>, <<"/">> } }
    \cup { <<"/">> \o a \o <<"/">> \o b \o t :
             a \in PathSegments, b \in PathSegments, t \in { << >>, <<"/">> } }

\* nothing has been read from a log
EmptyBatch ==
    /\ data = << >>
    /\ requests = EmptyDict
    /\ coldstart_contexts = {}
    /\ pair_requests = EmptyDict
    /\ start_marks = EmptyDict
    /\ response_times = << >>
    /\ function_times = EmptyDict
    /\ auth_start_marks = EmptyDict
    /\ auth_function_times = EmptyDict
    /\ raised = {}

correlation == <<data, requests, coldstart_contexts, pair_requests, start_marks, response_times,
                 function_times, auth_start_marks, auth_function_times, raised>>

ClassifyInit ==
    /\ batch = "classify"
    /\ EmptyBatch
    /\ url \in Urls
    /\ classified = << >>
    /\ Unfiltered

\* the request of url is classified by each analysis that classifies
Classify ==
    /\ batch = "classify"
    /\ "endpoint" \notin DOMAIN classified
    /\ classified' =
           [endpoint |-> ExtractEndpoint(url),
            is_auth |-> is_auth_endpoint(ExtractEndpoint(url)),
            pair_endpoint |-> PairsEndpoint(url),
            category |-> categorize_endpoint(PairsEndpoint(url)),
            auth_times_key |-> AuthRequestsKey(url)]
    /\ UNCHANGED <<batch, correlation, url, detailed, warm, load>>

ClassifyNext == Classify

ClassifySpec == ClassifyInit /\ [][ClassifyNext]_vars

---------------------------------------------------------------------------
(* Warm-up filters *)

MaxRequests == 4

WARMUP_SECONDS == 60

\* start times of requests, in seconds after the first log line
StartTimes == {0, 5, 60, 65, 120}

\* Requests as extract_detailed_request_data returns them.  start_time is a
\* datetime, or None when the log line of the before entry carries none: a
\* request without the field stands for start_time None.
TimedRequests ==
    { [duration |-> 100 + t, endpoint |-> "e", start_time |-> t] : t \in StartTimes }

UntimedRequests == { [duration |-> 7, endpoint |-> "e"] }

\* r.get('start_time'): a datetime is true, None is not
HasStartTime(r) == "start_time" \in DOMAIN r

\* [r for r in requests if r.get('start_time')]
TimedOf(reqs) == SelectSeq(reqs, HasStartTime)

\* sorted(timed_requests, key=lambda x: x['start_time'])
RECURSIVE InsertByStartTime(_, _)
InsertByStartTime(r, sorted) ==
    IF sorted = << >> THEN <<r>>
    ELSE IF r.start_time < Head(sorted).start_time THEN <<r>> \o sorted
    ELSE <<Head(sorted)>> \o InsertByStartTime(r, Tail(sorted))

RECURSIVE SortedByStartTime(_)
SortedByStartTime(reqs) ==
    IF reqs = << >> THEN << >>
    ELSE InsertByStartTime(reqs[Len(reqs)],
                           SortedByStartTime(SubSeq(reqs, 1, Len(reqs) - 1)))

\* warmup_end = sorted_reqs[0]['start_time'] + timedelta(seconds=warmup_seconds)
WarmupEnd(reqs, warmup_seconds) ==
    SortedByStartTime(TimedOf(reqs))[1].start_time + warmup_seconds

\* [r['duration'] for r in reqs]
DurationsOf(reqs) == [i \in 1..Len(reqs) |-> reqs[i].duration]

\* Variant of filter_warmup_from_detailed_requests: a request is kept when
\* it starts after the end of the warm-up.
filter_warmup_keeping_later(reqs, warmup_seconds) ==
    IF reqs = << >> THEN [filtered |-> << >>, excluded_count |-> 0]
    ELSE IF TimedOf(reqs) = << >> THEN [filtered |-> reqs, excluded_count |-> 0]
    ELSE LET warmup_end == WarmupEnd(reqs, warmup_seconds)
             filtered == SelectSeq(reqs, LAMBDA r :
                             ~HasStartTime(r) \/ r.start_time > warmup_end)
         IN  [filtered |-> filtered, excluded_count |-> Len(reqs) - Len(filtered)]

\* utils.filter_warmup_from_detailed_requests: the list it returns and the
\* excluded_count it prints
filter_warmup_from_detailed_requests(reqs, warmup_seconds) ==
    IF reqs = << >> THEN [filtered |-> << >>, excluded_count |-> 0]
    ELSE IF TimedOf(reqs) = << >> THEN [filtered |-> reqs, excluded_count |-> 0]
    ELSE LET warmup_end == WarmupEnd(reqs, warmup_seconds)
             filtered == SelectSeq(reqs, LAMBDA r :
                             ~HasStartTime(r) \/ r.start_time >= warmup_end)
         IN  [filtered |-> filtered, excluded_count |-> Len(reqs) - Len(filtered)]

\* Variant of filter_warmup_from_response_times without the branch for a
\* list that holds no start time: every request falls to the comparison
\* with the end of the warm-up, and none passes it.
filter_warmup_dropping_untimed(reqs, warmup_seconds) ==
    IF reqs = << >> THEN [times |-> << >>, excluded_count |-> 0]
    ELSE IF TimedOf(reqs) = << >>
    THEN [times |-> << >>, excluded_count |-> Len(reqs)]
    ELSE LET warmup_end == WarmupEnd(reqs, warmup_seconds)
             warm_requests == SelectSeq(reqs, LAMBDA r :
                                  HasStartTime(r) /\ r.start_time >= warmup_end)
         IN  [times |-> DurationsOf(warm_requests),
              excluded_count |-> Len(reqs) - Len(warm_requests)]

\* filter_warmup_from_response_times, from requests on: (filtered_times,
\* excluded_count)
filter_warmup_from_response_times(reqs, warmup_seconds) ==
    IF reqs = << >> THEN [times |-> << >>, excluded_count |-> 0]
    ELSE IF TimedOf(reqs) = << >>
    THEN [times |-> DurationsOf(reqs), excluded_count |-> 0]
    ELSE LET warmup_end == WarmupEnd(reqs, warmup_seconds)
             warm_requests == SelectSeq(reqs, LAMBDA r :
                                  HasStartTime(r) /\ r.start_time >= warmup_end)
         IN  [times |-> DurationsOf(warm_requests),
              excluded_count |-> Len(reqs) - Len(warm_requests)]

\* endpoint -> durations of a request list, as a defaultdict(list) is filled
RECURSIVE EndpointTimes(_)
EndpointTimes(reqs) ==
    IF reqs = << >> THEN EmptyDict
    ELSE AppendTo(EndpointTimes(SubSeq(reqs, 1, Len(reqs) - 1)),
                  reqs[Len(reqs)].endpoint, reqs[Len(reqs)].duration)

\* filter_warmup_from_endpoint_times, from requests on
filter_warmup_from_endpoint_times(reqs, endpoint_times, warmup_seconds) ==
    IF reqs = << >> THEN endpoint_times
    ELSE IF TimedOf(reqs) = << >> THEN endpoint_times
    ELSE LET warmup_end == WarmupEnd(reqs, warmup_seconds)
         IN  EndpointTimes(SelectSeq(reqs, LAMBDA r :
                 HasStartTime(r) /\ r.start_time >= warmup_end))

WarmupInit ==
    /\ batch = "warmup"
    /\ EmptyBatch
    /\ Unclassified
    /\ Unfiltered

\* one more request is extracted, and every filter runs on the list with
\* the default warmup_seconds; endpoint_times holds the durations of all
\* requests of the list
FilterWarmup(r) ==
    /\ batch = "warmup"
    /\ Len(detailed) < MaxRequests
    /\ detailed' = Append(detailed, r)
    /\ warm' =
           [detailed |->
                filter_warmup_from_detailed_requests(detailed', WARMUP_SECONDS),
            response_times |->
                filter_warmup_from_response_times(detailed', WARMUP_SECONDS),
            endpoint_times |->
                filter_warmup_from_endpoint_times(detailed', EndpointTimes(detailed'),
                                                  WARMUP_SECONDS)]
    /\ UNCHANGED <<batch, correlation, url, classified, load>>

FilterTimed == \E r \in TimedRequests : FilterWarmup(r)

FilterUntimed == \E r \in UntimedRequests : FilterWarmup(r)

WarmupNext == FilterTimed \/ FilterUntimed

WarmupSpec == WarmupInit /\ [][WarmupNext]_vars

---------------------------------------------------------------------------
(* analyze_load_over_time *)

\* lists of at most MaxLoadRequests requests come in any order, lists in
\* start order grow to MaxOrderedRequests
MaxLoadRequests == 3

MaxOrderedRequests == 12

\* start times in seconds; the requests starting at 4 and 9 hit an auth
\* endpoint
LoadStartTimes == {0, 4, 5, 9, 12}

AuthStartTimes == {4, 9}

\* start times of the lists in any order
AnyOrderStartTimes == {0, 5, 12}

\* time_window_seconds of the callers
TimeWindows == {5, 10}

\* The n-th request of the list: duration is positive and below the
\* ceiling, as extract_detailed_request_data admits it.
TimedLoadRequest(t, n) ==
    [duration |-> 10 * t + n, is_auth |-> t \in AuthStartTimes, start_time |-> t]

UntimedLoadRequest(n) == [duration |-> n, is_auth |-> FALSE]

\* Python's true division and the numpy statistics, as exact fractions in
\* lowest terms
RECURSIVE GCD(_, _)
GCD(a, b) == IF b = 0 THEN a ELSE GCD(b, a % b)

Fraction(n, d) == [num |-> n \div GCD(n, d), den |-> d \div GCD(n, d)]

RECURSIVE Sum(_)
Sum(a) == IF a = << >> THEN 0 ELSE Head(a) + Sum(Tail(a))

\* the place of a[i] in ascending order, equal values in list order
Rank(a, i) ==
    Cardinality({ j \in DOMAIN a : a[j] < a[i] \/ (a[j] = a[i] /\ j < i) }) + 1

\* the sorted copy of a that numpy computes its order statistics from
Sorted(a) == [k \in DOMAIN a |-> a[CHOOSE i \in DOMAIN a : Rank(a, i) = k]]

\* np.mean
Mean(a) == Fraction(Sum(a), Len(a))

\* np.percentile(a, q), linear interpolation between the closest ranks: the
\* virtual index is (len(a) - 1) * q / 100
Percentile(a, q) ==
    LET sorted == Sorted(a)
        lower  == ((Len(a) - 1) * q) \div 100
        above  == ((Len(a) - 1) * q) % 100
    IN  IF above = 0 THEN Fraction(sorted[lower + 1], 1)
        ELSE Fraction(100 * sorted[lower + 1]
                          + above * (sorted[lower + 2] - sorted[lower + 1]), 100)

\* the value of auth_mean_ms and auth_p95_ms without enough samples
NotComputed == Fraction(0, 1)

\* [r for r in timed_requests if current_window_start <= r['start_time'] < window_end]
WindowRequests(timed_requests, current_window_start, window_end) ==
    SelectSeq(timed_requests, LAMBDA r :
        current_window_start <= r.start_time /\ r.start_time < window_end)

\* Variant of window_data: auth_p95_ms is computed from the first auth
\* sample on.
window_data_p95_of_any(window_requests, current_window_start, window_end, start_time, time_window_seconds) ==
    LET durations      == DurationsOf(window_requests)
        auth_requests  == SelectSeq(window_requests, LAMBDA r : r.is_auth)
        auth_durations == DurationsOf(auth_requests)
    IN  [window_start |-> current_window_start - start_time,
         window_end |-> window_end - start_time,
         request_count |-> Len(window_requests),
         requests_per_second |-> Fraction(Len(window_requests), time_window_seconds),
         mean_ms |-> Mean(durations),
         median_ms |-> Percentile(durations, 50),
         p50_ms |-> Percentile(durations, 50),
         p75_ms |-> Percentile(durations, 75),
         p90_ms |-> Percentile(durations, 90),
         p95_ms |-> Percentile(durations, 95),
         p99_ms |-> Percentile(durations, 99),
         min_ms |-> Sorted(durations)[1],
         max_ms |-> Sorted(durations)[Len(durations)],
         auth_request_count |-> Len(auth_requests),
         auth_mean_ms |-> IF auth_durations # << >> THEN Mean(auth_durations)
                          ELSE NotComputed,
         auth_p95_ms |-> IF Len(auth_durations) >= 1
                         THEN Percentile(auth_durations, 95)
                         ELSE NotComputed]

\* window_data of one loop iteration; std_ms, a square root, is left out
window_data(window_requests, current_window_start, window_end, start_time, time_window_seconds) ==
    LET durations      == DurationsOf(window_requests)
        auth_requests  == SelectSeq(window_requests, LAMBDA r : r.is_auth)
        auth_durations == DurationsOf(auth_requests)
    IN  [window_start |-> current_window_start - start_time,
         window_end |-> window_end - start_time,
         request_count |-> Len(window_requests),
         requests_per_second |-> Fraction(Len(window_requests), time_window_seconds),
         mean_ms |-> Mean(durations),
         median_ms |-> Percentile(durations, 50),
         p50_ms |-> Percentile(durations, 50),
         p75_ms |-> Percentile(durations, 75),
         p90_ms |-> Percentile(durations, 90),
         p95_ms |-> Percentile(durations, 95),
         p99_ms |-> Percentile(durations, 99),
         min_ms |-> Sorted(durations)[1],
         max_ms |-> Sorted(durations)[Len(durations)],
         auth_request_count |-> Len(auth_requests),
         auth_mean_ms |-> IF auth_durations # << >> THEN Mean(auth_durations)
                          ELSE NotComputed,
         auth_p95_ms |-> IF Len(auth_durations) >= 5
                         THEN Percentile(auth_durations, 95)
                         ELSE NotComputed]

\* Variant of AppendWindow: a bucket without requests is emitted as an empty
\* shell.
AppendWindowWithShells(windows, window_requests, current_window_start, window_end, start_time, time_window_seconds) ==
    IF window_requests # << >>
    THEN Append(windows, window_data(window_requests, current_window_start,
                                     window_end, start_time, time_window_seconds))
    ELSE Append(windows, [window_start |-> current_window_start - start_time,
                          window_end |-> window_end - start_time,
                          request_count |-> 0,
                          requests_per_second |-> Fraction(0, time_window_seconds),
                          auth_request_count |-> 0,
                          auth_mean_ms |-> NotComputed,
                          auth_p95_ms |-> NotComputed])

\* if window_requests: windows.append(window_data)
AppendWindow(windows, window_requests, current_window_start, window_end, start_time, time_window_seconds) ==
    IF window_requests # << >>
    THEN Append(windows, window_data(window_requests, current_window_start,
                                     window_end, start_time, time_window_seconds))
    ELSE windows

\* window_end = current_window_start + timedelta(seconds=time_window_seconds)
WindowEnd(current_window_start, time_window_seconds) ==
    current_window_start + time_window_seconds

\* Variant of LoopTest: the loop also runs for a window that starts at
\* end_time.
LoopTestInclusive(current_window_start, end_time) == current_window_start <= end_time

\* while current_window_start < end_time
LoopTest(current_window_start, end_time) == current_window_start < end_time

LoadInit ==
    /\ batch = "load"
    /\ EmptyBatch
    /\ Unclassified
    /\ Unfiltered

\* extract_detailed_request_data yields one more request
Extracted(r) ==
    /\ batch = "load"
    /\ load = << >>
    /\ detailed' = Append(detailed, r)
    /\ UNCHANGED <<batch, correlation, url, classified, warm, load>>

\* requests in any order, with or without a start time
ExtractedAny ==
    /\ Len(detailed) < MaxLoadRequests
    /\ \E r \in { TimedLoadRequest(t, Len(detailed) + 1) : t \in AnyOrderStartTimes }
                \cup { UntimedLoadRequest(Len(detailed) + 1) } : Extracted(r)

\* the list is in start order
InStartOrder(reqs) ==
    /\ TimedOf(reqs) = reqs
    /\ \A i, j \in DOMAIN reqs : i < j => reqs[i].start_time <= reqs[j].start_time

\* a log whose requests come in start order
ExtractedInOrder ==
    /\ Len(detailed) < MaxOrderedRequests
    /\ \E t \in LoadStartTimes :
           /\ InStartOrder(Append(detailed, TimedLoadRequest(t, Len(detailed) + 1)))
           /\ Extracted(TimedLoadRequest(t, Len(detailed) + 1))

\* analyze_load_over_time up to its loop: the early returns, the sort and
\* the bounds of the range
Call(time_window_seconds) ==
    /\ batch = "load"
    /\ load = << >>
    /\ load' =
          IF detailed = << >> \/ TimedOf(detailed) = << >>
          THEN [pc |-> "returned", time_window_seconds |-> time_window_seconds,
                windows |-> << >>]
          ELSE LET timed_requests == SortedByStartTime(TimedOf(detailed))
               IN  [pc |-> "loop", time_window_seconds |-> time_window_seconds,
                    timed_requests |-> timed_requests,
                    start_time |-> timed_requests[1].start_time,
                    end_time |-> timed_requests[Len(timed_requests)].start_time,
                    windows |-> << >>,
                    current_window_start |-> timed_requests[1].start_time]
    /\ UNCHANGED <<batch, correlation, url, classified, detailed, warm>>

CallAnalyze == \E time_window_seconds \in TimeWindows : Call(time_window_seconds)

InLoop == load # << >> /\ load.pc = "loop"

\* one iteration of the while loop
LoopBody ==
    /\ InLoop
    /\ LoopTest(load.current_window_start, load.end_time)
    /\ \E window_end \in {WindowEnd(load.current_window_start, load.time_window_seconds)} :
         \E window_requests \in {WindowRequests(load.timed_requests,
                                                load.current_window_start, window_end)} :
           load' = [load EXCEPT
               !.windows = AppendWindow(load.windows, window_requests,
                                        load.current_window_start, window_end,
                                        load.start_time, load.time_window_seconds),
               !.current_window_start = window_end]
    /\ UNCHANGED <<batch, correlation, url, classified, detailed, warm>>

\* the loop test fails: return windows
LoopExit ==
    /\ InLoop
    /\ ~LoopTest(load.current_window_start, load.end_time)
    /\ load' = [load EXCEPT !.pc = "returned"]
    /\ UNCHANGED <<batch, correlation, url, classified, detailed, warm>>

LoadNext == ExtractedAny \/ ExtractedInOrder \/ CallAnalyze \/ LoopBody \/ LoopExit

LoadSpec == LoadInit /\ [][LoadNext]_vars

\* The calls on the lists in any order, with a loop that is not abandoned:
\* a loop iteration that can run does run, and so does the return.
FairLoadNext == ExtractedAny \/ CallAnalyze \/ LoopBody \/ LoopExit

FairLoadSpec ==
    LoadInit /\ [][FairLoadNext]_vars /\ WF_vars(LoopBody) /\ WF_vars(LoopExit)

---------------------------------------------------------------------------
(* What the batch read so far contains, told from the entries alone *)

IsPairEntry(e) == "type" \in DOMAIN e.event

IsPerfEntry(e) == "perf" \in DOMAIN e.event

MarkOf(e) == e.event.perf.mark

IsSpanEntry(e) == IsPerfEntry(e) /\ MarkOf(e)[1] \in {"start", "end"}

IsMeasureEntry(e) == IsPerfEntry(e) /\ MarkOf(e)[1] = "measure"

\* begin markers: request-before and span-start
IsBegin(e) ==
    \/ IsPairEntry(e) /\ e.event.type = "before"
    \/ IsSpanEntry(e) /\ MarkOf(e)[1] = "start"

\* end markers: request-after and span-end
IsEnd(e) ==
    \/ IsPairEntry(e) /\ e.event.type = "after"
    \/ IsSpanEntry(e) /\ MarkOf(e)[1] = "end"

\* the marker's clock value
Stamp(e) == IF IsPairEntry(e) THEN e.timestamp ELSE e.now

\* (contextId, mark id) of a span marker: the mark id is what follows the
\* leading "start:" or "end:"
SpanKey(e) == <<e.event.contextId, SubSeq(MarkOf(e), 3, Len(MarkOf(e)))>>

SpanKeys == { <<c, n>> : c \in MarkContexts, n \in SpanNames }

\* the markers of one key, in log order
PairHist(k) == SelectSeq(data, LAMBDA e : IsPairEntry(e) /\ e.event.contextId = k)

SpanHist(key) == SelectSeq(data, LAMBDA e : IsSpanEntry(e) /\ SpanKey(e) = key)

\* a key has a pending begin when its latest marker is a begin
Pending(h) == Len(h) > 0 /\ IsBegin(h[Len(h)])

ValidDuration(d) == 0 < d /\ d < OutlierCeiling

Count(seq, Test(_)) == Len(SelectSeq(seq, Test))

\* durations of the requests extract_detailed_request_data returns for one key
ProcessedDurations(k) ==
    LET mine == SelectSeq(Processed(requests), LAMBDA r : r.context_id = k)
    IN  [i \in 1..Len(mine) |-> mine[i].duration]

\* all durations collected in a function_times dict
FunctionDurations(ft) ==
    UNION { { ft[i].val[j] : j \in DOMAIN ft[i].val } : i \in DOMAIN ft }

\* number of durations collected in a function_times dict
RECURSIVE NumFunctionDurations(_)
NumFunctionDurations(ft) ==
    IF ft = << >> THEN 0 ELSE Len(Head(ft).val) + NumFunctionDurations(Tail(ft))

Range(seq) == { seq[i] : i \in DOMAIN seq }

\* the entry a step has just read
Read == data'[Len(data')]

---------------------------------------------------------------------------
(* C1..C10: begin/end correlation *)

\* C1 -- a key with exactly one begin at b followed by exactly one end at e,
\* 0 < e - b < 60000, yields exactly one request, of duration e - b: for
\* before/after pairs per contextId in the returned list, and for span
\* start/end pairs per (contextId, mark id) the step reading the end appends
\* e - b to response_times and the step reading the start appends nothing.
C1Pairs ==
    \A k \in Contexts :
        LET h == PairHist(k) IN
        (/\ Len(h) = 2 /\ IsBegin(h[1]) /\ IsEnd(h[2])
         /\ ValidDuration(Stamp(h[2]) - Stamp(h[1])))
        => ProcessedDurations(k) = <<Stamp(h[2]) - Stamp(h[1])>>

C1Spans ==
    IsSpanEntry(Read) =>
        LET h == SpanHist(SpanKey(Read)) IN
        /\ IsBegin(Read) => response_times' = response_times
        /\ (/\ IsEnd(Read) /\ Len(h) = 1 /\ IsBegin(h[1])
            /\ ValidDuration(Stamp(Read) - Stamp(h[1])))
           => response_times' = Append(response_times, Stamp(Read) - Stamp(h[1]))

C1_RoundTrip == [][C1Pairs' /\ C1Spans]_vars

\* C2 -- last write wins: begins at b1 then b2 and one end at e for one key
\* yield exactly one request, of duration e - b2 (when that duration is
\* valid); and no table ever holds two entries for one key.
C2Pairs ==
    \A k \in Contexts :
        LET h == PairHist(k) IN
        (/\ Len(h) = 3 /\ IsBegin(h[1]) /\ IsBegin(h[2]) /\ IsEnd(h[3])
         /\ ValidDuration(Stamp(h[3]) - Stamp(h[2])))
        => ProcessedDurations(k) = <<Stamp(h[3]) - Stamp(h[2])>>

C2Spans ==
    IsSpanEntry(Read) =>
        LET h == SpanHist(SpanKey(Read)) IN
        (/\ IsEnd(Read) /\ Len(h) = 2 /\ IsBegin(h[1]) /\ IsBegin(h[2])
         /\ ValidDuration(Stamp(Read) - Stamp(h[2])))
        => response_times' = Append(response_times, Stamp(Read) - Stamp(h[2]))

OnePerKey(d) == \A i, j \in DOMAIN d : d[i].key = d[j].key => i = j

C2_LastWriteWins ==
    [][C2Pairs' /\ C2Spans /\ OnePerKey(requests') /\ OnePerKey(start_marks')]_vars

\* C3 -- an end marker for a key without a pending begin yields no request
\* and leaves the pending tables as they were.  (The orphan counter of the
\* claim has no counterpart in the code: no function keeps or returns one.)
C3_OrphanHandling ==
    [][/\ (IsPairEntry(Read) /\ IsEnd(Read)
             /\ ~Pending(PairHist(Read.event.contextId)))
          => /\ requests' = requests
             /\ pair_requests' = pair_requests
             /\ Processed(requests') = Processed(requests)
       /\ (IsSpanEntry(Read) /\ IsEnd(Read) /\ ~Pending(SpanHist(SpanKey(Read))))
          => /\ start_marks' = start_marks
             /\ response_times' = response_times]_vars

\* C4 -- a begin/end pair whose duration is >= 60000 or <= 0 yields no
\* request and is counted as discarded.  A function that counts the discard
\* reports it: for a batch that holds one such pair and nothing else, its
\* result differs from the result for the empty batch.
C4_OutlierCounted ==
    \A k \in Contexts :
        LET h == PairHist(k) IN
        (/\ Len(h) = 2 /\ IsBegin(h[1]) /\ IsEnd(h[2])
         /\ ~ValidDuration(Stamp(h[2]) - Stamp(h[1])))
        => /\ ProcessedDurations(k) = << >>
           /\ data = h => /\ PairResponseTimes(pair_requests) = << >>
                          /\ Processed(requests) # Processed(EmptyDict)

\* C5 -- every emitted duration d satisfies 0 < d < 60000, whatever marker
\* kind it came from (before/after pair, span pair, instant measure).
C5_DurationInvariant ==
    /\ \A r \in Range(Processed(requests)) : ValidDuration(r.duration)
    /\ \A d \in Range(PairResponseTimes(pair_requests)) : ValidDuration(d)
    /\ \A d \in Range(response_times) : ValidDuration(d)
    /\ \A d \in FunctionDurations(function_times) : ValidDuration(d)
    /\ \A d \in FunctionDurations(auth_function_times) : ValidDuration(d)

\* C6 -- an end that is read before its key's begin is an orphan, and the
\* later begin stays unmatched: the stream end, begin yields no request.
C6_EndBeforeBegin ==
    /\ \A k \in Contexts :
           LET h == PairHist(k) IN
           (Len(h) = 2 /\ IsEnd(h[1]) /\ IsBegin(h[2]))
           => ProcessedDurations(k) = << >>
    /\ \A key \in SpanKeys :
           LET h == SpanHist(key) IN
           (data = h /\ Len(h) = 2 /\ IsEnd(h[1]) /\ IsBegin(h[2]))
           => response_times = << >>

\* C7 -- a request exists from the moment its pair resolves and is not
\* changed afterwards: begin(b1), end(e1), begin(b2), end(e2) with valid
\* durations yields two requests e1 - b1 and e2 - b2; begin(b1), end(e1),
\* end(e2) yields the one request e1 - b1.
C7Expected(h) ==
    IF Len(h) = 4
    THEN <<Stamp(h[2]) - Stamp(h[1]), Stamp(h[4]) - Stamp(h[3])>>
    ELSE <<Stamp(h[2]) - Stamp(h[1])>>

C7Shape(h) ==
    \/ /\ Len(h) = 4 /\ IsBegin(h[1]) /\ IsEnd(h[2]) /\ IsBegin(h[3]) /\ IsEnd(h[4])
       /\ ValidDuration(Stamp(h[2]) - Stamp(h[1]))
       /\ ValidDuration(Stamp(h[4]) - Stamp(h[3]))
    \/ /\ Len(h) = 3 /\ IsBegin(h[1]) /\ IsEnd(h[2]) /\ IsEnd(h[3])
       /\ ValidDuration(Stamp(h[2]) - Stamp(h[1]))

C7_ResolvedOnce ==
    /\ \A k \in Contexts :
           C7Shape(PairHist(k)) => ProcessedDurations(k) = C7Expected(PairHist(k))
    /\ \A key \in SpanKeys :
           (data = SpanHist(key) /\ C7Shape(data))
           => response_times = C7Expected(data)

\* C8 -- an end whose duration fails the validity check emits nothing and
\* still removes the pending begin: begin, end (invalid), end yields no
\* request.
C8Shape(h) ==
    /\ Len(h) = 3 /\ IsBegin(h[1]) /\ IsEnd(h[2]) /\ IsEnd(h[3])
    /\ ~ValidDuration(Stamp(h[2]) - Stamp(h[1]))

C8_InvalidEndReleases ==
    /\ \A k \in Contexts : C8Shape(PairHist(k)) => ProcessedDurations(k) = << >>
    /\ \A key \in SpanKeys :
           (data = SpanHist(key) /\ C8Shape(data))
           => response_times = << >> /\ auth_function_times = << >>

\* C9 -- the pending state holds exactly one entry per key that has a begin
\* not yet closed by an end, so it does not grow with completed requests.
C9_PendingBound ==
    /\ Len(requests) = Cardinality({ k \in Contexts : Pending(PairHist(k)) })
    /\ Len(start_marks) = Cardinality({ key \in SpanKeys : Pending(SpanHist(key)) })

\* C10 -- at the end of the input a begin that no end followed yields no
\* request, and the number of requests emitted never exceeds the number of
\* end markers plus instant measures read.
NumEnds == Count(data, IsEnd)

NumMeasures == Count(data, IsMeasureEntry)

---------------------------------------------------------------------------
(* C11..C20: marker shapes, classification, warm-up *)

RECURSIVE ExtractAll(_, _)
ExtractAll(reqs, seq) ==
    IF seq = << >> THEN reqs
    ELSE ExtractAll(ExtractStep(reqs, Unwrapped(Head(seq))), Tail(seq))

RECURSIVE MarksAll(_, _)
MarksAll(st, seq) ==
    IF seq = << >> THEN st
    ELSE MarksAll(MarksStep(st, Unwrapped(Head(seq))), Tail(seq))

WellFormed(entry) == entry \in WellFormedEntries

\* C12 -- no entry shape halts a run: whatever malformed or foreign entries
\* the batch holds, no analysis raises, and what it returns is what it
\* returns for the batch without them (the malformed entries are skipped).
C12_MalformedSkipped ==
    /\ raised = {}
    /\ Processed(requests)
           = Processed(ExtractAll(EmptyDict, SelectSeq(data, WellFormed)))
    /\ response_times
           = MarksAll([start_marks |-> EmptyDict, response_times |-> << >>,
                       function_times |-> EmptyDict],
                      SelectSeq(data, WellFormed)).response_times

\* the keys of the spans a mixed batch can hold
KeySpanKeys == { <<c, n>> : c \in Contexts, n \in KeyNames }

\* C13 -- a mark start:<kind>:<name> or end:<kind>:<name> is a span marker
\* for every kind, and its mark id is the text after the leading prefix: a
\* start is stored under (contextId, <kind>:<name>); an end is matched with
\* the pending start of the same contextId and the same <kind>:<name>, and
\* with no other.
C13_MarkId ==
    [][IsSpanEntry(Read) =>
          LET key == SpanKey(Read)
              h == SpanHist(key)
          IN  /\ IsBegin(Read) =>
                    /\ Has(start_marks', key)
                    /\ Get(start_marks', key) = Stamp(Read)
              /\ (IsEnd(Read) /\ Pending(h)) =>
                    /\ ~Has(start_marks', key)
                    /\ Stamp(Read) - Stamp(h[Len(h)]) > 0 =>
                           response_times'
                               = Append(response_times, Stamp(Read) - Stamp(h[Len(h)]))
              /\ (IsEnd(Read) /\ ~Pending(h)) =>
                    /\ start_marks' = start_marks
                    /\ response_times' = response_times]_vars

\* C15 -- keys never interact: the step that reads a marker of one key
\* leaves the pending entry of every other key as it was and emits no
\* request for another key (a span duration is only emitted when the
\* marker's own key has a pending start; the requests returned for another
\* contextId stay the same).
C15_KeysIndependent ==
    [][/\ IsSpanEntry(Read) =>
             /\ \A key \in KeySpanKeys \ {SpanKey(Read)} :
                    /\ Has(start_marks', key) = Has(start_marks, key)
                    /\ Has(start_marks, key) =>
                           Get(start_marks', key) = Get(start_marks, key)
             /\ response_times' # response_times =>
                    IsEnd(Read) /\ Pending(SpanHist(SpanKey(Read)))
       /\ \A k \in Contexts \ {Read.event.contextId} :
             /\ Has(requests', k) = Has(requests, k)
             /\ Has(requests, k) => Get(requests', k) = Get(requests, k)
             /\ ProcessedDurations(k)' = ProcessedDurations(k)]_vars

\* the non-empty path segments of a url
Segments(u) == SelectSeq(SplitPath(u), LAMBDA seg : seg # << >>)

\* the last non-empty segment, or product when product is the segment
\* before it
ClaimedEndpoint(u) ==
    LET segs == Segments(u)
        n == Len(segs)
    IN  IF n >= 2 /\ segs[n - 1] = product THEN product ELSE segs[n]

IsClassified == "endpoint" \in DOMAIN classified

\* C16 -- the endpoint of a request is the last non-empty path segment of
\* its url, except that for .../product/<id> it is product, in
\* extract_detailed_request_data and in analyze_response_times_from_pairs.
C16_EndpointDerivation ==
    (IsClassified /\ Segments(url) # << >>) =>
        /\ classified.endpoint = ClaimedEndpoint(url)
        /\ classified.pair_endpoint = ClaimedEndpoint(url)

\* the categories in the declared order of the table
CategoryOrder == <<"User Management", "Product Browsing", "Shopping Cart", "Checkout">>

\* the keywords the table declares for a category
KeywordsOf(cat) ==
    UNION { Range(ENDPOINT_CATEGORIES[i].endpoints) :
              i \in { j \in DOMAIN ENDPOINT_CATEGORIES :
                        ENDPOINT_CATEGORIES[j].category = cat } }

\* the positions in the order whose category has a keyword occurring in the
\* endpoint, letter case ignored
MatchingCategories(endpoint) ==
    { i \in DOMAIN CategoryOrder :
        \E kw \in KeywordsOf(CategoryOrder[i]) : Contains(Lower(endpoint), Lower(kw)) }

\* C17 -- the category of an endpoint is the first category in the declared
\* order that has a keyword occurring in the endpoint, letter case ignored,
\* and Other when no category has one.
C17_CategoryDerivation ==
    IsClassified =>
        LET m == MatchingCategories(classified.pair_endpoint)
        IN  classified.category =
                IF m = {} THEN "Other"
                ELSE CategoryOrder[CHOOSE i \in m : \A j \in m : i <= j]

\* the endpoint cartcheckout has a keyword of Shopping Cart and one of
\* Checkout, and is put in Shopping Cart
C17_Witness ==
    /\ IsClassified
    /\ classified.pair_endpoint
           = <<"c", "a", "r", "t", "c", "h", "e", "c", "k", "o", "u", "t">>
    /\ Cardinality(MatchingCategories(classified.pair_endpoint)) = 2
    /\ classified.category = "Shopping Cart"

\* the authentication keywords
AuthKeywords == {register, setUser, login, logout, auth, token, verify}

ClaimedAuth(endpoint) ==
    \E kw \in AuthKeywords : Contains(Lower(endpoint), Lower(kw))

\* C18 -- a request counts as auth exactly when its endpoint contains one
\* of the authentication keywords, letter case ignored, both where
\* extract_detailed_request_data sets is_auth and where
\* analyze_auth_requests sorts durations into auth and non-auth.
C18_AuthFlag ==
    IsClassified =>
        /\ classified.is_auth = ClaimedAuth(classified.endpoint)
        /\ classified.auth_times_key
               = IF ClaimedAuth(classified.endpoint) THEN "auth" ELSE "non-auth"

IsFiltered == "detailed" \in DOMAIN warm

\* t0, the earliest start time of the list, and the cutoff t0 + warm-up
EarliestStart ==
    LET starts == { detailed[i].start_time :
                      i \in { j \in DOMAIN detailed : HasStartTime(detailed[j]) } }
    IN  CHOOSE t \in starts : \A u \in starts : t <= u

Cutoff == EarliestStart + WARMUP_SECONDS

\* the timed requests of the list at or after the cutoff, in list order
AtOrAfterCutoff ==
    SelectSeq(detailed, LAMBDA r : HasStartTime(r) /\ r.start_time >= Cutoff)

BeforeCutoff ==
    SelectSeq(detailed, LAMBDA r : HasStartTime(r) /\ r.start_time < Cutoff)

UntimedOf(reqs) == SelectSeq(reqs, LAMBDA r : ~HasStartTime(r))

\* C19 -- with t0 the earliest start time and cutoff = t0 + 60, a filter
\* keeps a timed request exactly when its start time is >= cutoff (a
\* request starting at the cutoff is kept), keeps the kept requests in list
\* order, and the count it reports is the number of requests it removed.
C19_WarmupFilter ==
    (IsFiltered /\ TimedOf(detailed) # << >>) =>
        /\ TimedOf(warm.detailed.filtered) = AtOrAfterCutoff
        /\ warm.detailed.excluded_count = Len(BeforeCutoff)
        /\ warm.response_times.times = DurationsOf(AtOrAfterCutoff)
        /\ warm.response_times.excluded_count
               = Len(BeforeCutoff) + Len(UntimedOf(detailed))
        /\ warm.endpoint_times = EndpointTimes(AtOrAfterCutoff)

\* requests starting at 0, 5, 65 and 120 s: 65 and 120 are kept and 2 are
\* reported
C19_Witness ==
    /\ IsFiltered
    /\ TimedOf(detailed) = detailed
    /\ DurationsOf(detailed) = <<100, 105, 165, 220>>
    /\ Cutoff = 60
    /\ DurationsOf(warm.detailed.filtered) = <<165, 220>>
    /\ warm.detailed.excluded_count = 2
    /\ warm.response_times = [times |-> <<165, 220>>, excluded_count |-> 2]

\* C20 -- every warm-up filter keeps the requests without a start time:
\* each of them is in the output, and none of them is counted as excluded.
C20_UntimedRetained ==
    (IsFiltered /\ TimedOf(detailed) # << >>) =>
        /\ UntimedOf(warm.detailed.filtered) = UntimedOf(detailed)
        /\ warm.detailed.excluded_count = Len(BeforeCutoff)
        /\ Len(SelectSeq(warm.response_times.times, LAMBDA d : d = 7))
               = Len(UntimedOf(detailed))
        /\ warm.response_times.excluded_count = Len(BeforeCutoff)
        /\ NumFunctionDurations(warm.endpoint_times)
               = Len(AtOrAfterCutoff) + Len(UntimedOf(detailed))

---------------------------------------------------------------------------
(* C21..C30: warm-up without start times, windows, cold starts, agreement *)

Returned == load # << >> /\ load.pc = "returned"

\* the timed requests of the list that start in window w
CountedIn(w) ==
    SelectSeq(TimedOf(detailed), LAMBDA r :
        /\ EarliestStart + w.window_start <= r.start_time
        /\ r.start_time < EarliestStart + w.window_end)

\* the windows of the output that contain the start time of request r
WindowsOf(r) == { i \in DOMAIN load.windows : \E k \in DOMAIN CountedIn(load.windows[i]) :
                      CountedIn(load.windows[i])[k] = r }

RequestCounts == [i \in DOMAIN load.windows |-> load.windows[i].request_count]

\* C22 -- the windows cover [origin, max(startTime)]: every timed request
\* starts in exactly one emitted window and the request counts add up to
\* the number of timed requests, also for a request at max(startTime) on a
\* window boundary and for a list with one start time only.
C22_WindowCoverage ==
    Returned =>
        /\ Sum(RequestCounts) = Len(TimedOf(detailed))
        /\ \A i \in DOMAIN detailed :
               HasStartTime(detailed[i]) => Cardinality(WindowsOf(detailed[i])) = 1

\* six requests start in [origin, origin + 5) and six in [origin + 5,
\* origin + 10)
SixAndSix ==
    /\ Len(TimedOf(detailed)) = 12
    /\ Len(CountedIn([window_start |-> 0, window_end |-> 5])) = 6
    /\ Len(CountedIn([window_start |-> 5, window_end |-> 10])) = 6

\* C23 -- in every emitted window requests_per_second is request_count /
\* time_window_seconds and request_count is the number of requests that
\* start in [window_start, window_end); 12 requests, six in each of two
\* consecutive 5-second windows, give exactly 2 windows of 6 requests and
\* 1.2 requests per second each.
C23_WindowRate ==
    Returned =>
        /\ \A i \in DOMAIN load.windows :
               /\ load.windows[i].request_count = Len(CountedIn(load.windows[i]))
               /\ load.windows[i].requests_per_second
                      = Fraction(load.windows[i].request_count,
                                 load.time_window_seconds)
        /\ (load.time_window_seconds = 5 /\ SixAndSix) =>
               /\ Len(load.windows) = 2
               /\ \A i \in 1..2 :
                      /\ load.windows[i].request_count = 6
                      /\ load.windows[i].requests_per_second = [num |-> 6, den |-> 5]

\* C24 -- every emitted window holds at least one request, is
\* time_window_seconds wide and starts a whole number of widths after the
\* origin; the windows come in strictly ascending order and do not overlap.
C24_WindowShape ==
    load # << >> =>
        /\ \A i \in DOMAIN load.windows :
               /\ load.windows[i].request_count >= 1
               /\ load.windows[i].window_end - load.windows[i].window_start
                      = load.time_window_seconds
               /\ load.windows[i].window_start >= 0
               /\ load.windows[i].window_start % load.time_window_seconds = 0
        /\ \A i, j \in DOMAIN load.windows :
               i < j => /\ load.windows[i].window_start < load.windows[j].window_start
                        /\ load.windows[i].window_end <= load.windows[j].window_start

\* requests at 0 and 12 s, 5-second windows: the bucket [5, 10) is left out
C24_Witness ==
    /\ Returned
    /\ load.time_window_seconds = 5
    /\ Len(load.windows) = 2
    /\ load.windows[1].window_start = 0
    /\ load.windows[2].window_start = 10
    /\ DurationsOf(detailed) = <<1, 122>>

\* the durations of the auth requests that start in window w
AuthDurationsIn(w) == DurationsOf(SelectSeq(CountedIn(w), LAMBDA r : r.is_auth))

\* C25 -- per window, auth_request_count is the number of its requests with
\* is_auth, at most request_count; auth_mean_ms is the mean of the auth
\* durations when there is at least one, auth_p95_ms their 95th percentile
\* when there are at least five, and otherwise the field holds the
\* not-computed value, which no mean or percentile of real durations equals.
C25_AuthStatistics ==
    Returned =>
        \A i \in DOMAIN load.windows :
            LET w == load.windows[i]
                auth_durations == AuthDurationsIn(w)
            IN  /\ w.auth_request_count = Len(auth_durations)
                /\ w.auth_request_count <= w.request_count
                /\ IF Len(auth_durations) >= 1
                   THEN w.auth_mean_ms = Mean(auth_durations)
                        /\ w.auth_mean_ms # NotComputed
                   ELSE w.auth_mean_ms = NotComputed
                /\ IF Len(auth_durations) >= 5
                   THEN w.auth_p95_ms = Percentile(auth_durations, 95)
                        /\ w.auth_p95_ms # NotComputed
                   ELSE w.auth_p95_ms = NotComputed

\* one window with five auth requests and both statistics, one with a
\* single auth request and the mean only
C25_Witness ==
    /\ Returned
    /\ Len(load.windows) = 2
    /\ load.windows[1].auth_request_count = 5
    /\ load.windows[1].request_count > 5
    /\ load.windows[1].auth_p95_ms # NotComputed
    /\ load.windows[2].auth_request_count = 1
    /\ load.windows[2].auth_mean_ms # NotComputed
    /\ load.windows[2].auth_p95_ms = NotComputed

\* C26 -- windows are built from requests that passed the warm-up filter:
\* no emitted window counts a request that starts before min(startTime) +
\* WARMUP_SECONDS.
C26_WindowsAfterWarmup ==
    Returned =>
        \A i \in DOMAIN load.windows :
            \A k \in DOMAIN CountedIn(load.windows[i]) :
                CountedIn(load.windows[i])[k].start_time >= Cutoff

IsPrefix(a, b) == Len(a) <= Len(b) /\ SubSeq(b, 1, Len(a)) = a

\* ceil(a / b) of naturals
Ceil(a, b) == (a + b - 1) \div b

\* the loop iterations done so far: every iteration advances
\* current_window_start by one width
Iterations == (load.current_window_start - load.start_time) \div load.time_window_seconds

\* one step of a running call: the window start strictly increases while
\* the loop goes on, and the windows appended so far are kept as they are
WindowStep ==
    (load # << >> /\ load' # load) =>
        /\ load.pc = "loop"
        /\ IsPrefix(load.windows, load'.windows)
        /\ load'.pc = "loop" =>
               /\ load'.current_window_start > load.current_window_start
               /\ load'.current_window_start - load.current_window_start
                      = load.time_window_seconds
        /\ load'.pc = "returned" => load'.windows = load.windows

\* the loop has run ceil((max(startTime) - min(startTime)) / width) times
ExactIterations ==
    (Returned /\ "end_time" \in DOMAIN load) =>
        Iterations = Ceil(load.end_time - load.start_time, load.time_window_seconds)

\* C27 -- window aggregation terminates: every call returns, its loop runs
\* exactly ceil((max(startTime) - min(startTime)) / time_window_seconds)
\* times, the window start strictly increases with every iteration, and a
\* window once appended is never changed (the windows so far are a prefix of
\* the output).
C27_Termination ==
    /\ [][WindowStep]_vars
    /\ [](ExactIterations)
    /\ (load # << >>) ~> Returned

\* a call that has run three iterations and returned two windows
C27_Witness ==
    /\ Returned
    /\ "end_time" \in DOMAIN load
    /\ Iterations = 3
    /\ Len(load.windows) = 2

\* entry carries a truthy cold-start flag for the non-empty contextId c
FlagsContext(entry, c) ==
    /\ c # ""
    /\ "coldstart" \in DOMAIN entry.event
    /\ entry.event.coldstart = TRUE
    /\ "contextId" \in DOMAIN entry.event
    /\ entry.event.contextId = c

Emitted == ColdstartFlags(requests, coldstart_contexts)

\* C28 -- an emitted request has is_coldstart exactly when some entry of
\* the batch with its contextId carries a truthy cold-start flag, wherever
\* that entry stands in the batch; an entry of another contextId does not
\* flag the request.
C28_ColdstartFlag ==
    batch = "cold" =>
        \A i \in DOMAIN Emitted :
            Emitted[i].is_coldstart
                <=> \E k \in DOMAIN data : FlagsContext(data[k], Emitted[i].context_id)

\* the request of c1 is complete before the cold-start line of c1 arrives,
\* and is flagged
C28_Witness ==
    /\ batch = "cold"
    /\ Len(data) = 3
    /\ "type" \in DOMAIN data[1].event /\ "coldstart" \notin DOMAIN data[1].event
    /\ "type" \in DOMAIN data[2].event
    /\ FlagsContext(data[3], "c1")
    /\ Emitted = <<[context_id |-> "c1", is_coldstart |-> TRUE]>>

\* C29 -- the two auth classifications agree: analyze_auth_requests files
\* the duration of a request under auth exactly when
\* extract_detailed_request_data sets is_auth for it, and every request is
\* filed under one of the two groups.
C29_AuthGroupsAgree ==
    IsClassified =>
        /\ classified.auth_times_key \in {"auth", "non-auth"}
        /\ classified.auth_times_key = "auth" <=> classified.is_auth

\* the durations a function_times dict holds for one call target
TimesOf(ft, target) == IF Has(ft, target) THEN Get(ft, target) ELSE << >>

SameMultiset(a, b) ==
    \A d \in Range(a) \cup Range(b) :
        Count(a, LAMBDA x : x = d) = Count(b, LAMBDA x : x = d)

\* C30 -- the two span correlators agree on rpcOut spans: per call target,
\* analyze_function_auth_delays records the same multiset of durations as
\* analyze_response_times, also when one contextId has several calls to the
\* same target open at the same time (rpcOut:f:a and rpcOut:f:b).
C30_CorrelatorsAgree ==
    batch = "calls" =>
        SameMultiset(TimesOf(auth_function_times, <<"f">>),
                     TimesOf(function_times, <<"f">>))

===========================================================================
